---- MODULE Spec2Model ----
(***************************************************************************)
(* Product catalogue service: the Pydantic validation schemas              *)
(* (app/schemas/producto.py), the repository ProductoCRUD                  *)
(* (app/crud/producto.py), the table productos (app/models/producto.py)    *)
(* and the FastAPI handlers (app/routes/productos.py).                     *)
(*                                                                         *)
(* Text values (nombre, sku) are sequences of one-character strings.       *)
(* An optional value is a sequence of length at most one: <<>> is Python's *)
(* None and <<v>> is the value v.  A request payload is a function whose   *)
(* domain is the set of fields the JSON body supplies.                     *)
(***************************************************************************)
EXTENDS Integers, Sequences, FiniteSets, TLC

(***************************************************************************)
(* Bounds of the model.                                                    *)
(***************************************************************************)
MaxId == 2
MaxClock == 1
MaxRequests == 3
MaxPage == 2
MaxProcs == 2

(***************************************************************************)
(* Text helpers: str.upper and str.split.  A text is a sequence of         *)
(* characters.  The alphabet of the model is Latin-1, each character       *)
(* written as itself, and six characters beyond it that are written by     *)
(* their code points: "U+0178" (Y with diaeresis, capital), "U+039C"       *)
(* (Greek capital mu), "U+03BC" (Greek small mu), "U+01C4", "U+01C5" and   *)
(* "U+01C6" (the digraph dz with caron: capital, title case and small).    *)
(* str.upper follows the Unicode case mapping, under which the uppercase   *)
(* of one character can be two characters (sharp s gives SS) and the       *)
(* uppercase of a Latin-1 character can lie outside Latin-1.               *)
(***************************************************************************)
AsciiLower == <<"a","b","c","d","e","f","g","h","i","j","k","l","m",
                "n","o","p","q","r","s","t","u","v","w","x","y","z">>
AsciiUpper == <<"A","B","C","D","E","F","G","H","I","J","K","L","M",
                "N","O","P","Q","R","S","T","U","V","W","X","Y","Z">>

Latin1Lower == <<"à","á","â","ã","ä","å","æ","ç","è","é","ê","ë","ì","í","î",
               "ï","ð","ñ","ò","ó","ô","õ","ö","ø","ù","ú","û","ü","ý","þ">>
Latin1Upper == <<"À","Á","Â","Ã","Ä","Å","Æ","Ç","È","É","Ê","Ë","Ì","Í","Î",
               "Ï","Ð","Ñ","Ò","Ó","Ô","Õ","Ö","Ø","Ù","Ú","Û","Ü","Ý","Þ">>

\* the characters str.upper changes, sharp s apart, and what it gives
LowerLetters == AsciiLower \o Latin1Lower
                    \o <<"ÿ", "µ", "U+03BC", "U+01C6", "U+01C5">>
UpperLetters == AsciiUpper \o Latin1Upper
                    \o <<"U+0178", "U+039C", "U+039C", "U+01C4", "U+01C4">>

IndexOf(c, letters) == CHOOSE i \in 1..Len(letters) : letters[i] = c

UpperOf ==
    [c \in {LowerLetters[i] : i \in 1..Len(LowerLetters)} |->
        UpperLetters[IndexOf(c, LowerLetters)]]

\* str.upper of a one-character string, as a text
UpperChar(c) ==
    IF c = "ß" THEN <<"S","S">>
    ELSE IF c \in DOMAIN UpperOf THEN <<UpperOf[c]>>
    ELSE <<c>>

RECURSIVE upper(_)
upper(s) ==
    IF \A i \in 1..Len(s) : s[i] # "ß"
    THEN [i \in 1..Len(s) |-> UpperChar(s[i])[1]]
    ELSE UpperChar(Head(s)) \o upper(Tail(s))

RECURSIVE split(_, _)
split(s, sep) ==
    IF \E i \in 1..Len(s) : s[i] = sep
    THEN LET k == CHOOSE i \in 1..Len(s) :
                      s[i] = sep /\ \A j \in 1..(i - 1) : s[j] # sep
         IN <<SubSeq(s, 1, k - 1)>> \o split(SubSeq(s, k + 1, Len(s)), sep)
    ELSE <<s>>

(***************************************************************************)
(* Optional values and payload access.                                     *)
(***************************************************************************)
None == <<>>
Some(v) == <<v>>
IsNone(o) == o = <<>>
Val(o) == o[1]

\* attribute access on a Pydantic model with default None: unset reads None
Attr(p, f) == IF f \in DOMAIN p THEN p[f] ELSE None

FieldNames == {"nombre", "sku", "categoria", "precio_unitario", "stock", "disponible"}

(***************************************************************************)
(* Decimal values: coef * 10^exp, as decimal.Decimal.as_tuple reports.     *)
(***************************************************************************)
Dec(c, e) == [coef |-> c, exp |-> e]

RECURSIVE Pow10(_)
Pow10(n) == IF n <= 0 THEN 1 ELSE 10 * Pow10(n - 1)

\* the value of a decimal in thousandths (every exponent used is >= -3)
Thousandths(d) == d.coef * Pow10(d.exp + 3)

\* Decimal.__eq__ compares by value: Decimal("1.5") == Decimal("1.50")
DecEq(a, b) == Thousandths(a) = Thousandths(b)

\* Column Numeric(10, 2): the value is stored with two fractional digits
Numeric_10_2(d) == Dec(d.coef * Pow10(d.exp + 2), -2)

CategoriaProducto == {"Pan", "Pastelería", "Bebidas", "Otros"}

(***************************************************************************)
(* Field validators of ProductoBase (ProductoCreate).                      *)
(* Each returns [ok, v]: ok is FALSE when the validator raises.            *)
(***************************************************************************)
Fail == [ok |-> FALSE, v |-> None]
Pass(x) == [ok |-> TRUE, v |-> x]

ProductoBase_nombre(o) ==
    IF IsNone(o) THEN Fail
    ELSE IF Len(Val(o)) >= 1 /\ Len(Val(o)) <= 150 THEN Pass(Val(o)) ELSE Fail

\* faulty variant: validate_sku without the final upper()
ProductoBase_validate_sku_keeps_case(v) ==
    IF Len(v) = 0 THEN Fail
    ELSE IF Len(split(v, "-")) # 2 THEN Fail
    ELSE Pass(v)

ProductoBase_validate_sku(v) ==
    IF Len(v) = 0 THEN Fail
    ELSE IF Len(split(v, "-")) # 2 THEN Fail
    ELSE Pass(upper(v))

ProductoBase_sku(o) ==
    IF IsNone(o) THEN Fail
    ELSE IF Len(Val(o)) >= 3 /\ Len(Val(o)) <= 20
         THEN ProductoBase_validate_sku(Val(o)) ELSE Fail

ProductoBase_categoria(o) ==
    IF IsNone(o) THEN Fail
    ELSE IF Val(o) \in CategoriaProducto THEN Pass(Val(o)) ELSE Fail

\* faulty variant: the exponent test allows a third fractional digit
ProductoBase_validate_precio_three_digits(v) ==
    IF v.coef <= 0 THEN Fail
    ELSE IF v.exp < -3 THEN Fail
    ELSE Pass(v)

ProductoBase_validate_precio(v) ==
    IF v.coef <= 0 THEN Fail
    ELSE IF v.exp < -2 THEN Fail
    ELSE Pass(v)

ProductoBase_precio_unitario(o) ==
    IF IsNone(o) THEN Fail
    ELSE IF Val(o).coef > 0 THEN ProductoBase_validate_precio(Val(o)) ELSE Fail

ProductoBase_validate_stock(v) ==
    IF v < 0 THEN Fail ELSE Pass(v)

ProductoBase_stock(o) ==
    IF IsNone(o) THEN Fail
    ELSE IF Val(o) >= 0 THEN ProductoBase_validate_stock(Val(o)) ELSE Fail

ProductoBase_disponible(o) ==
    IF IsNone(o) THEN Fail ELSE Pass(Val(o))

\* ProductoCreate(**body): every field but disponible is required
ProductoCreate(p) ==
    LET required == {"nombre", "sku", "categoria", "precio_unitario", "stock"}
        n == ProductoBase_nombre(Attr(p, "nombre"))
        s == ProductoBase_sku(Attr(p, "sku"))
        c == ProductoBase_categoria(Attr(p, "categoria"))
        pr == ProductoBase_precio_unitario(Attr(p, "precio_unitario"))
        st == ProductoBase_stock(Attr(p, "stock"))
        d == IF "disponible" \in DOMAIN p
             THEN ProductoBase_disponible(p["disponible"]) ELSE Pass(TRUE)
    IN IF required \subseteq DOMAIN p
          /\ n.ok /\ s.ok /\ c.ok /\ pr.ok /\ st.ok /\ d.ok
       THEN [ok |-> TRUE,
             v |-> [nombre |-> n.v, sku |-> s.v, categoria |-> c.v,
                    precio_unitario |-> pr.v, stock |-> st.v,
                    disponible |-> d.v]]
       ELSE [ok |-> FALSE, v |-> None]

(***************************************************************************)
(* Field validators of ProductoUpdate: every field Optional, default None. *)
(* The result v is the parsed model: a function over the supplied fields   *)
(* (model_fields_set) holding optional values.                             *)
(***************************************************************************)
PassO(o) == [ok |-> TRUE, v |-> o]

ProductoUpdate_nombre(o) ==
    IF IsNone(o) THEN PassO(None)
    ELSE IF Len(Val(o)) >= 1 /\ Len(Val(o)) <= 150 THEN PassO(o) ELSE Fail

\* faulty variant: validate_sku without the final upper()
ProductoUpdate_validate_sku_keeps_case(o) ==
    IF ~IsNone(o)
    THEN IF Len(Val(o)) = 0 THEN Fail
         ELSE IF Len(split(Val(o), "-")) # 2 THEN Fail
         ELSE PassO(o)
    ELSE PassO(o)

ProductoUpdate_validate_sku(o) ==
    IF ~IsNone(o)
    THEN IF Len(Val(o)) = 0 THEN Fail
         ELSE IF Len(split(Val(o), "-")) # 2 THEN Fail
         ELSE PassO(Some(upper(Val(o))))
    ELSE PassO(o)

ProductoUpdate_sku(o) ==
    IF IsNone(o) THEN ProductoUpdate_validate_sku(o)
    ELSE IF Len(Val(o)) >= 3 /\ Len(Val(o)) <= 20
         THEN ProductoUpdate_validate_sku(o) ELSE Fail

ProductoUpdate_categoria(o) ==
    IF IsNone(o) THEN PassO(None)
    ELSE IF Val(o) \in CategoriaProducto THEN PassO(o) ELSE Fail

ProductoUpdate_validate_precio(o) ==
    IF ~IsNone(o)
    THEN IF Val(o).coef <= 0 THEN Fail
         ELSE IF Val(o).exp < -2 THEN Fail
         ELSE PassO(o)
    ELSE PassO(o)

ProductoUpdate_precio_unitario(o) ==
    IF IsNone(o) THEN ProductoUpdate_validate_precio(o)
    ELSE IF Val(o).coef > 0 THEN ProductoUpdate_validate_precio(o) ELSE Fail

ProductoUpdate_validate_stock(o) ==
    IF ~IsNone(o) /\ Val(o) < 0 THEN Fail ELSE PassO(o)

ProductoUpdate_stock(o) ==
    IF IsNone(o) THEN ProductoUpdate_validate_stock(o)
    ELSE IF Val(o) >= 0 THEN ProductoUpdate_validate_stock(o) ELSE Fail

ProductoUpdate_disponible(o) == PassO(o)

ProductoUpdate_field(f, o) ==
    CASE f = "nombre" -> ProductoUpdate_nombre(o)
      [] f = "sku" -> ProductoUpdate_sku(o)
      [] f = "categoria" -> ProductoUpdate_categoria(o)
      [] f = "precio_unitario" -> ProductoUpdate_precio_unitario(o)
      [] f = "stock" -> ProductoUpdate_stock(o)
      [] f = "disponible" -> ProductoUpdate_disponible(o)

\* ProductoUpdate(**body): validators run on the supplied fields only
ProductoUpdate(p) ==
    IF \A f \in DOMAIN p : ProductoUpdate_field(f, p[f]).ok
    THEN [ok |-> TRUE, v |-> [f \in DOMAIN p |-> ProductoUpdate_field(f, p[f]).v]]
    ELSE [ok |-> FALSE, v |-> None]

(***************************************************************************)
(* State.                                                                  *)
(*   productos  the table productos, keyed by the primary key id           *)
(*   seq        last value issued by the id sequence (PostgreSQL SERIAL)   *)
(*   now        the store's clock                                          *)
(*   dialect    the engine DATABASE_URL selects                            *)
(*   request    the last request served: its operation and, for a listing, *)
(*              its query parameters                                       *)
(*   status     HTTP status of the last completed request (0: none yet)    *)
(*   response   body returned by the last completed request, if any: a     *)
(*              row, a page of a listing, or the rows a search found       *)
(*   sess       the database session of each concurrent request            *)
(***************************************************************************)
VARIABLES productos, seq, now, dialect, request, status, response, sess

vars == <<productos, seq, now, dialect, request, status, response, sess>>

Dialects == {"postgresql", "sqlite"}
InFlight == 1..MaxRequests

Procs == 1..MaxProcs

IdleSession == [pc |-> "idle", op |-> "none", proc |-> 0, id |-> 0,
                data |-> None, loaded |-> None, tx_start |-> 0,
                pending |-> FALSE]

Max(S) == IF S = {} THEN 0 ELSE CHOOSE m \in S : \A x \in S : x <= m

(***************************************************************************)
(* The table productos and its constraints.                                *)
(***************************************************************************)
\* Producto(**producto.model_dump()) as the INSERT stores it
Producto(id, data, ts) ==
    [id |-> id, nombre |-> data.nombre, sku |-> data.sku,
     categoria |-> data.categoria,
     precio_unitario |-> Numeric_10_2(data.precio_unitario),
     stock |-> data.stock, disponible |-> data.disponible,
     fecha_registro |-> ts, fecha_actualizacion |-> ts]

\* faulty variant: the table has no unique constraint
uq_producto_sku_off(store, id, sku) == FALSE

\* UniqueConstraint('sku', name='uq_producto_sku'): TRUE when a row other
\* than id already holds sku
uq_producto_sku(store, id, sku) ==
    \E j \in DOMAIN store : j # id /\ store[j].sku = sku

\* Column sku String(20): PostgreSQL refuses a longer value, SQLite keeps it
String_20(dial, v) == dial = "sqlite" \/ Len(v) <= 20

\* autoincrement primary key: a sequence on PostgreSQL, max(rowid) + 1 on SQLite
NewId(store, sq, dial) ==
    IF dial = "postgresql" THEN sq + 1 ELSE Max(DOMAIN store) + 1

\* func.now(): the transaction's start on PostgreSQL, the statement's time on SQLite
func_now(dial, tx_start, clock) ==
    IF dial = "postgresql" THEN tx_start ELSE clock

WithRow(store, row) ==
    [j \in DOMAIN store \cup {row.id} |-> IF j = row.id THEN row ELSE store[j]]

(***************************************************************************)
(* ProductoCRUD.  Every operator returns the outcome of the call:          *)
(*   exc    "none" or the exception raised                                 *)
(*   ret    the value returned                                             *)
(*   store  the table after the call,  sq  the sequence after the call     *)
(***************************************************************************)
Outcome(exc, ret, store, sq) ==
    [exc |-> exc, ret |-> ret, store |-> store, sq |-> sq]

get_by_id(store, producto_id) ==
    IF producto_id \in DOMAIN store THEN Some(store[producto_id]) ELSE None

\* faulty variant: create without its pre-check
create_existing_product_skipped(store, producto) == FALSE

\* create, lines 29-31: the pre-check read
create_existing_product(store, producto) ==
    \E j \in DOMAIN store : store[j].sku = producto.sku

\* db.refresh(row): the row is read again by its primary key
refresh(store, sq, id) ==
    IF id \in DOMAIN store
    THEN Outcome("none", Some(store[id]), store, sq)
    ELSE Outcome("InvalidRequestError", None, store, sq)

\* create, lines 34-36: add and the flush of commit; ret is the row the
\* INSERT wrote, whose id is taken when the INSERT runs
create_flush(store, sq, dial, ts, producto) ==
    LET id == NewId(store, sq, dial)
        sq2 == IF dial = "postgresql" THEN sq + 1 ELSE sq
        row == Producto(id, producto, ts)
    IN IF ~String_20(dial, producto.sku)
       THEN Outcome("DataError", None, store, sq)
       ELSE IF uq_producto_sku(store, id, producto.sku)
       THEN Outcome("IntegrityError", None, store, sq2)
       ELSE Outcome("none", Some(row), WithRow(store, row), sq2)

\* create, lines 29-38
create(store, sq, dial, ts, producto) ==
    IF create_existing_product(store, producto)
    THEN Outcome("ValueError", None, store, sq)
    ELSE LET r == create_flush(store, sq, dial, ts, producto)
         IN IF r.exc # "none" THEN r
            ELSE refresh(r.store, r.sq, Val(r.ret).id)

\* update, line 144: whether the SKU is looked up at all
update_reads_sku(db_producto, producto_update) ==
    LET sku == Attr(producto_update, "sku")
    IN ~IsNone(sku) /\ Val(sku) # db_producto.sku

\* update, lines 144-149: the SKU check against the loaded row
update_existing_product(store, db_producto, producto_id, producto_update) ==
    LET sku == Attr(producto_update, "sku")
    IN /\ ~IsNone(sku)
       /\ Val(sku) # db_producto.sku
       /\ \E j \in DOMAIN store : store[j].sku = Val(sku) /\ j # producto_id

\* the ORM's attribute comparison at flush: a Decimal compares by value
is_equal(f, new, old) ==
    IF IsNone(new) THEN FALSE
    ELSE IF f = "precio_unitario" THEN DecEq(Val(new), old)
    ELSE Val(new) = old

\* the columns the flush puts in the UPDATE statement
changed_columns(db_producto, update_data) ==
    {f \in DOMAIN update_data : ~is_equal(f, update_data[f], db_producto[f])}

ColumnValue(f, v) == IF f = "precio_unitario" THEN Numeric_10_2(v) ELSE v

\* faulty variant: onupdate on fecha_registro
onupdate_wrong_column(row, ts) == [row EXCEPT !.fecha_registro = ts]

\* onupdate=func.now() on fecha_actualizacion, applied by an UPDATE statement
onupdate(row, ts) == [row EXCEPT !.fecha_actualizacion = ts]

\* faulty variant: model_dump without exclude_unset resets disponible
setattr_fields_with_defaults(row, update_data, cols) ==
    [f \in DOMAIN row |->
        IF f \in cols THEN ColumnValue(f, Val(update_data[f]))
        ELSE IF f = "disponible" THEN TRUE ELSE row[f]]

\* setattr for every dumped field, as the UPDATE writes them
setattr_fields(row, update_data, cols) ==
    [f \in DOMAIN row |->
        IF f \in cols THEN ColumnValue(f, Val(update_data[f])) ELSE row[f]]

\* update, lines 152-156: setattr and commit; the UPDATE carries the
\* columns whose value differs from the loaded row, and there is no UPDATE
\* when none does
update_flush(store, dial, db_producto, producto_id, update_data, ts) ==
    LET cols == changed_columns(db_producto, update_data)
    IN IF cols = {}
       THEN Outcome("none", None, store, 0)
       ELSE IF /\ "sku" \in cols
               /\ ~IsNone(update_data["sku"])
               /\ ~String_20(dial, Val(update_data["sku"]))
       THEN Outcome("DataError", None, store, 0)
       ELSE IF producto_id \notin DOMAIN store
       THEN Outcome("StaleDataError", None, store, 0)
       ELSE IF \E f \in cols : IsNone(update_data[f])
       THEN Outcome("IntegrityError", None, store, 0)
       ELSE IF "sku" \in cols
               /\ uq_producto_sku(store, producto_id, Val(update_data["sku"]))
       THEN Outcome("IntegrityError", None, store, 0)
       ELSE LET row == onupdate(setattr_fields(store[producto_id], update_data, cols),
                                ts)
            IN Outcome("none", None, WithRow(store, row), 0)

\* update, lines 152-158: setattr, commit, refresh
update_commit(store, dial, db_producto, producto_id, update_data, ts) ==
    LET r == update_flush(store, dial, db_producto, producto_id, update_data, ts)
    IN IF r.exc # "none" THEN r ELSE refresh(r.store, 0, producto_id)

\* faulty variant: the SKU check runs before the row is looked up
update_sku_check_first(store, dial, producto_id, producto_update, ts) ==
    LET sku == Attr(producto_update, "sku")
    IN IF ~IsNone(sku)
          /\ \E j \in DOMAIN store : store[j].sku = Val(sku) /\ j # producto_id
       THEN Outcome("ValueError", None, store, 0)
       ELSE IF producto_id \notin DOMAIN store
       THEN Outcome("none", None, store, 0)
       ELSE update_commit(store, dial, store[producto_id], producto_id,
                          producto_update, ts)

\* update, lines 139-158
update(store, dial, producto_id, producto_update, ts) ==
    IF producto_id \notin DOMAIN store
    THEN Outcome("none", None, store, 0)
    ELSE IF update_existing_product(store, store[producto_id], producto_id,
                                    producto_update)
    THEN Outcome("ValueError", None, store, 0)
    ELSE update_commit(store, dial, store[producto_id], producto_id,
                       producto_update, ts)

\* faulty variants: a DELETE without its WHERE clause, and a delete that
\* reports success but leaves the row in the table
delete_every_row(store, producto_id) ==
    IF producto_id \notin DOMAIN store
    THEN Outcome("none", FALSE, store, 0)
    ELSE Outcome("none", TRUE, [j \in {} |-> None], 0)

\* delete, lines 171-177
delete(store, producto_id) ==
    IF producto_id \notin DOMAIN store
    THEN Outcome("none", FALSE, store, 0)
    ELSE Outcome("none", TRUE,
                 [j \in DOMAIN store \ {producto_id} |-> store[j]], 0)

(***************************************************************************)
(* Queries.  get_all and search_by_nombre put no ORDER BY in their SELECT: *)
(* the order of the rows is the order of the scan.  SQLite scans the table *)
(* in rowid order; PostgreSQL promises no order, so every order is a       *)
(* possible outcome of a query and each query returns the set of lists it  *)
(* may produce.                                                            *)
(***************************************************************************)
Min(a, b) == IF a <= b THEN a ELSE b

\* the sequences that enumerate the set S, each element once
Enumerations(S) ==
    {f \in [1..Cardinality(S) -> S] : \A i, j \in DOMAIN f : i # j => f[i] # f[j]}

\* the orders in which a scan may deliver the rows with the ids in S
scan_order(S, dial) ==
    IF dial = "sqlite"
    THEN {f \in Enumerations(S) : \A i, j \in DOMAIN f : i < j => f[i] < f[j]}
    ELSE Enumerations(S)

\* query.offset(skip).limit(limit).all() over the rows ord enumerates
offset_limit(store, ord, skip, limit) ==
    IF skip >= Len(ord) THEN <<>>
    ELSE [i \in 1..(Min(Len(ord), skip + limit) - skip) |-> store[ord[skip + i]]]

\* Python truth value of an Optional[str]: None and "" are false
truthy(o) == ~IsNone(o) /\ Val(o) # ""

\* get_all, lines 87-95
get_all(store, dial, skip, limit, categoria, disponible) ==
    LET query == {j \in DOMAIN store :
                    /\ truthy(categoria) => store[j].categoria = Val(categoria)
                    /\ ~IsNone(disponible)
                          => store[j].disponible = Val(disponible)}
    IN {offset_limit(store, ord, skip, limit) : ord \in scan_order(query, dial)}

\* faulty variant: count_all without its disponible filter
count_all_ignores_disponible(store, categoria, disponible) ==
    Cardinality({j \in DOMAIN store :
                    truthy(categoria) => store[j].categoria = Val(categoria)})

\* count_all, lines 114-122
count_all(store, categoria, disponible) ==
    LET query == {j \in DOMAIN store :
                    /\ truthy(categoria) => store[j].categoria = Val(categoria)
                    /\ ~IsNone(disponible)
                          => store[j].disponible = Val(disponible)}
    IN Cardinality(query)

\* the engine's lower() of one character: SQLite folds the ASCII letters
\* only, PostgreSQL folds by the locale of the database (a UTF-8 locale)
PgUpper == Latin1Upper \o <<"U+0178", "U+039C", "U+01C4", "U+01C5">>
PgLower == Latin1Lower \o <<"ÿ", "U+03BC", "U+01C6", "U+01C6">>

AsciiLowerOf ==
    [c \in {AsciiUpper[i] : i \in 1..Len(AsciiUpper)} |->
        AsciiLower[IndexOf(c, AsciiUpper)]]

PgLowerOf ==
    [c \in {PgUpper[i] : i \in 1..Len(PgUpper)} |->
        PgLower[IndexOf(c, PgUpper)]]

LowerChar(c, dial) ==
    IF c \in DOMAIN AsciiLowerOf THEN AsciiLowerOf[c]
    ELSE IF dial = "postgresql" /\ c \in DOMAIN PgLowerOf THEN PgLowerOf[c]
    ELSE c

\* nombre.ilike(pattern): ILIKE on PostgreSQL, lower(nombre) LIKE
\* lower(pattern) elsewhere.  % matches any run of characters, _ matches
\* any one character, every other character matches itself ignoring case.
\* The statement has no ESCAPE clause: PostgreSQL then takes a backslash as
\* the escape character (the character after it matches itself), SQLite
\* has no escape character.
RECURSIVE ilike(_, _, _)
ilike(s, pattern, dial) ==
    IF pattern = <<>> THEN s = <<>>
    ELSE IF dial = "postgresql" /\ Head(pattern) = "\\"
    THEN /\ Len(pattern) >= 2
         /\ s # <<>>
         /\ LowerChar(Head(s), dial) = LowerChar(pattern[2], dial)
         /\ ilike(Tail(s), Tail(Tail(pattern)), dial)
    ELSE IF Head(pattern) = "%"
    THEN ilike(s, Tail(pattern), dial)
         \/ (s # <<>> /\ ilike(Tail(s), pattern, dial))
    ELSE /\ s # <<>>
         /\ \/ Head(pattern) = "_"
            \/ LowerChar(Head(s), dial) = LowerChar(Head(pattern), dial)
         /\ ilike(Tail(s), Tail(pattern), dial)

\* search_by_nombre, lines 192-194
search_by_nombre(store, dial, nombre, skip, limit) ==
    LET query == {j \in DOMAIN store :
                    ilike(store[j].nombre, <<"%">> \o nombre \o <<"%">>,
                          dial)}
    IN {offset_limit(store, ord, skip, limit) : ord \in scan_order(query, dial)}

(***************************************************************************)
(* Request bodies.                                                         *)
(***************************************************************************)
Txt_Pan == <<"P","a","n">>
Txt_Croissant == <<"C","r","o","i","s","s","a","n","t">>
Txt_Premium == <<"P","a","n"," ","P","r","e","m","i","u","m">>
Sku_pan_0001 == <<"p","a","n","-","0","0","0","1">>
Sku_PAN_0001 == <<"P","A","N","-","0","0","0","1">>
Sku_Pas_0101 == <<"P","a","s","-","0","1","0","1">>
Sku_INVALID == <<"I","N","V","A","L","I","D">>
\* 20 characters, 21 once uppercased
Sku_eszett == <<"ß","B","C","D","E","F","G","H","I","J","-",
                "0","1","2","3","4","5","6","7","8">>

Body_pan ==
    [nombre |-> Some(Txt_Pan), sku |-> Some(Sku_pan_0001),
     categoria |-> Some("Pan"), precio_unitario |-> Some(Dec(125, -2)),
     stock |-> Some(120), disponible |-> Some(TRUE)]

Body_PAN == [Body_pan EXCEPT !.sku = Some(Sku_PAN_0001)]

\* disponible is left out: the schema default applies
Body_pas ==
    [nombre |-> Some(Txt_Croissant), sku |-> Some(Sku_Pas_0101),
     categoria |-> Some("Pastelería"), precio_unitario |-> Some(Dec(15, -1)),
     stock |-> Some(0)]

Body_invalid ==
    [nombre |-> Some(<<>>), sku |-> Some(Sku_INVALID),
     categoria |-> Some("Pan"), precio_unitario |-> Some(Dec(-1, 0)),
     stock |-> Some(-5), disponible |-> Some(TRUE)]

CreateBodies ==
    {Body_pan, Body_PAN, Body_pas, Body_invalid,
     [Body_pan EXCEPT !.precio_unitario = Some(Dec(0, 0))]}

Body_premium ==
    [nombre |-> Some(Txt_Premium), categoria |-> Some("Bebidas"),
     precio_unitario |-> Some(Dec(15, -1)), stock |-> Some(150),
     disponible |-> Some(FALSE)]

UpdateBodies ==
    { [f \in {} |-> None],
      [stock |-> Some(150)],
      Body_premium,
      [sku |-> Some(Sku_pan_0001)],
      [sku |-> Some(Sku_Pas_0101)],
      [stock |-> None],
      [stock |-> Some(-1)] }

\* a SKU that seed_database does not write
Body_pan_0002 ==
    [Body_pan EXCEPT !.sku = Some(<<"p","a","n","-","0","0","0","2">>)]

ConcCreateBodies == {Body_pan, Body_PAN, Body_pan_0002}

ConcUpdateBodies == {[sku |-> Body_pan_0002.sku, stock |-> Some(150)]}

RequestIds == 1..(MaxId + 1)

\* bodies of the requests that submit a SKU which grows when uppercased
Body_eszett == [Body_pan EXCEPT !.sku = Some(Sku_eszett)]
SkuCreateBodies == {Body_eszett, Body_pas}
SkuUpdateBodies == {[sku |-> Some(Sku_eszett)], [stock |-> Some(150)]}

\* bodies of the requests that exercise the validators: a field at and
\* beyond each limit of its rule, one field at a time
Sku_enye_b == <<"ñ","-","b">>
Sku_AB_ == <<"A","B","-">>
Sku__AB == <<"-","A","B">>
Sku_A_B_C == <<"A","-","B","-","C">>
Sku_A_ == <<"A","-">>
Sku_20 == <<"A","B","C","D","E","F","G","H","I","J","-","0","1","2","3","4","5","6","7","8">>
Sku_21 == <<"A","B","C","D","E","F","G","H","I","J","-","0","1","2","3","4","5","6","7","8","9">>
Txt_151 == [i \in 1..151 |-> "x"]

ValidationSkus ==
    {Sku_pan_0001, Sku_enye_b, Sku_AB_, Sku__AB, Sku_A_B_C, Sku_INVALID, Sku_A_,
     Sku_20, Sku_21}

ValidationPrecios ==
    {Dec(125, -2), Dec(1, -2), Dec(0, 0), Dec(0, -2), Dec(1255, -3),
     Dec(1250, -3), Dec(-1, 0)}

ValidationStocks == {120, 0, -1}

ValidationCreateBodies ==
    {[Body_pan EXCEPT !.sku = Some(sku)] : sku \in ValidationSkus}
    \cup {[Body_pan EXCEPT !.precio_unitario = Some(precio)] :
             precio \in ValidationPrecios}
    \cup {[Body_pan EXCEPT !.stock = Some(stock)] : stock \in ValidationStocks}
    \cup {[Body_pan EXCEPT !.nombre = Some(nombre)] :
             nombre \in {<<>>, Txt_151}}
    \cup {[Body_pan EXCEPT !.categoria = Some("Tortas")],
          [Body_pan EXCEPT !.disponible = None]}

ValidationUpdateBodies ==
    {[sku |-> Some(sku)] : sku \in {Sku_AB_, Sku_A_B_C, Sku_INVALID, Sku_21}}
    \cup {[precio_unitario |-> Some(precio)] :
             precio \in {Dec(1, -2), Dec(0, 0), Dec(1255, -3)}}
    \cup {[stock |-> Some(stock)] : stock \in {0, -1}}
    \cup {[nombre |-> Some(nombre)] : nombre \in {<<>>, Txt_151}}
    \cup {[categoria |-> Some("Tortas")]}
    \cup {[f \in {field} |-> None] : field \in FieldNames}
    \cup {[sku |-> Some(Sku_pan_0001), stock |-> Some(-1)]}

\* bodies and query parameters of the requests that exercise the queries
Body_cafe ==
    [Body_pas EXCEPT !.nombre = Some(<<"C","a","f","é"," ","5","0","%">>)]
QueryCreateBodies == {Body_pan, Body_cafe}
QueryUpdateBodies == {Body_premium}
QueryCategorias == {None, Some("Pan"), Some(""), Some("Tortas")}
QueryDisponibles == {None, Some(TRUE), Some(FALSE)}
QuerySkips == (-1)..MaxPage
QueryLimits == 0..MaxPage
SearchTerms ==
    { <<"p","a","n">>, <<"C","A","F","É">>, <<"_","a","n">>, <<"%">>, <<"\\">> }

\* seed_database, lines 56-89: the rows of productos_prueba; the floats
\* 1.25, 2.75, 1.50 and 3.00 are written as Python prints them
productos_prueba ==
    << [nombre |-> <<"P","a","n"," ","F","r","a","n","c","é","s">>,
        sku |-> Sku_PAN_0001, categoria |-> "Pan",
        precio_unitario |-> Dec(125, -2), stock |-> 120, disponible |-> TRUE],
       [nombre |-> Txt_Croissant, sku |-> <<"P","A","S","-","0","1","0","1">>,
        categoria |-> "Pastelería",
        precio_unitario |-> Dec(275, -2), stock |-> 60, disponible |-> TRUE],
       [nombre |-> <<"C","a","f","é"," ","A","m","e","r","i","c","a","n","o">>,
        sku |-> <<"B","E","B","-","0","2","0","1">>,
        categoria |-> "Bebidas",
        precio_unitario |-> Dec(15, -1), stock |-> 200, disponible |-> TRUE],
       [nombre |-> <<"E","m","p","a","n","a","d","a"," ","d","e"," ",
                     "P","o","l","l","o">>,
        sku |-> <<"E","M","P","-","0","3","0","1">>,
        categoria |-> "Otros",
        precio_unitario |-> Dec(30, -1), stock |-> 50, disponible |-> TRUE] >>

Request(op) == [op |-> op]

(***************************************************************************)
(* Initial state: empty table, no request served yet.                      *)
(***************************************************************************)
Init ==
    /\ productos = [j \in {} |-> None]
    /\ seq = 0
    /\ now = 0
    /\ dialect \in Dialects
    /\ request = Request("none")
    /\ status = 0
    /\ response = None
    /\ sess = [w \in InFlight |-> IdleSession]

\* HTTP status of a repository outcome: ValueError is mapped to 400, any
\* other exception leaves the handler and is answered with 500
StatusOf(r, success) ==
    IF r.exc = "none" THEN success
    ELSE IF r.exc = "ValueError" THEN 400 ELSE 500

(***************************************************************************)
(* Handlers, each run to completion (one request at a time).               *)
(***************************************************************************)
\* FastAPI parses the JSON body into the schema before the handler runs
ParsedCreate ==
    [b \in CreateBodies \cup ValidationCreateBodies \cup SkuCreateBodies
            \cup QueryCreateBodies \cup ConcCreateBodies
        |-> ProductoCreate(b)]
ParsedUpdate ==
    [b \in UpdateBodies \cup ValidationUpdateBodies \cup SkuUpdateBodies
            \cup ConcUpdateBodies
        |-> ProductoUpdate(b)]

\* the SKUs a request can write, and what ProductoBase decides for each
WrittenSkus ==
    {productos_prueba[k].sku : k \in 1..4}
    \cup {ParsedCreate[b].v.sku : b \in {c \in DOMAIN ParsedCreate : ParsedCreate[c].ok}}
    \cup {Val(ParsedUpdate[b].v["sku"]) :
             b \in {c \in DOMAIN ParsedUpdate :
                      /\ ParsedUpdate[c].ok
                      /\ ~IsNone(Attr(c, "sku"))}}
ValidatedSku == [sku \in WrittenSkus |-> ProductoBase_sku(Some(sku))]

\* ProductoResponse.model_validate(row): the rules of ProductoBase, applied
\* to a row read from the table
ProductoResponse(row) ==
    [ok |-> /\ ProductoBase_nombre(Some(row.nombre)).ok
            /\ ValidatedSku[row.sku].ok
            /\ ProductoBase_categoria(Some(row.categoria)).ok
            /\ ProductoBase_precio_unitario(Some(row.precio_unitario)).ok
            /\ ProductoBase_stock(Some(row.stock)).ok
            /\ ProductoBase_disponible(Some(row.disponible)).ok,
     v |-> row]

\* the answer to a request whose repository call had outcome r: FastAPI
\* validates the returned row against response_model, and a row that fails
\* is answered 500
Answer(r, success) ==
    IF r.exc # "none" THEN [status |-> StatusOf(r, success), body |-> None]
    ELSE IF ProductoResponse(Val(r.ret)).ok
    THEN [status |-> success, body |-> r.ret]
    ELSE [status |-> 500, body |-> None]

\* the ids are capped at MaxId, and at MaxId above the rows of
\* seed_database once the table or the sequence has gone that far
LastId(store, sq) ==
    IF Max(DOMAIN store \cup {sq}) >= Len(productos_prueba)
    THEN MaxId + Len(productos_prueba) ELSE MaxId

\* faulty variant: the SKU is looked up before the body is validated
crear_producto_lookup_first(body) ==
    LET m == ParsedCreate[body]
    IN /\ request' = Request("create")
       /\ IF /\ ~IsNone(Attr(body, "sku"))
             /\ \E j \in DOMAIN productos :
                   productos[j].sku = upper(Val(body["sku"]))
          THEN /\ status' = 400
               /\ response' = None
               /\ UNCHANGED <<productos, seq>>
          ELSE IF ~m.ok
          THEN /\ status' = 422
               /\ response' = None
               /\ UNCHANGED <<productos, seq>>
          ELSE LET r == create(productos, seq, dialect,
                               func_now(dialect, now, now), m.v)
                   a == Answer(r, 201)
               IN /\ r.exc = "none" => Val(r.ret).id <= LastId(productos, seq)
                  /\ productos' = r.store
                  /\ seq' = r.sq
                  /\ status' = a.status
                  /\ response' = a.body
       /\ UNCHANGED <<now, dialect, sess>>

crear_producto(body) ==
    LET m == ParsedCreate[body]
    IN /\ request' = Request("create")
       /\ IF ~m.ok
          THEN /\ status' = 422
               /\ response' = None
               /\ UNCHANGED <<productos, seq>>
          ELSE LET r == create(productos, seq, dialect,
                               func_now(dialect, now, now), m.v)
                   a == Answer(r, 201)
               IN /\ r.exc = "none" => Val(r.ret).id <= LastId(productos, seq)
                  /\ productos' = r.store
                  /\ seq' = r.sq
                  /\ status' = a.status
                  /\ response' = a.body
       /\ UNCHANGED <<now, dialect, sess>>

obtener_producto(producto_id) ==
    LET producto == get_by_id(productos, producto_id)
        a == IF IsNone(producto) THEN [status |-> 404, body |-> None]
             ELSE Answer(Outcome("none", producto, productos, seq), 200)
    IN /\ request' = Request("get")
       /\ status' = a.status
       /\ response' = a.body
       /\ UNCHANGED <<productos, seq, now, dialect, sess>>

actualizar_producto(producto_id, body) ==
    LET m == ParsedUpdate[body]
    IN /\ request' = Request("update")
       /\ IF ~m.ok
          THEN /\ status' = 422
               /\ response' = None
               /\ UNCHANGED productos
          ELSE LET r == update(productos, dialect, producto_id, m.v,
                               func_now(dialect, now, now))
                   a == IF r.exc = "none" /\ IsNone(r.ret)
                        THEN [status |-> 404, body |-> None]
                        ELSE Answer(r, 200)
               IN /\ productos' = r.store
                  /\ status' = a.status
                  /\ response' = a.body
       /\ UNCHANGED <<seq, now, dialect, sess>>

eliminar_producto(producto_id) ==
    LET r == delete(productos, producto_id)
    IN /\ request' = Request("delete")
       /\ productos' = r.store
       /\ status' = IF r.ret THEN 204 ELSE 404
       /\ response' = None
       /\ UNCHANGED <<seq, now, dialect, sess>>

\* seed_database, lines 92-96: the rows of productos_prueba are added and
\* flushed by commit, one INSERT after the other; ret is the rows written
seed_flush(store, sq, dial, ts) ==
    LET n == Len(productos_prueba)
        first == IF dial = "postgresql" THEN sq ELSE Max(DOMAIN store)
        clash == {k \in 1..n : \E j \in DOMAIN store :
                                  store[j].sku = productos_prueba[k].sku}
        rows == [k \in 1..n |-> Producto(first + k, productos_prueba[k], ts)]
    IN IF clash # {}
       THEN Outcome("IntegrityError", None, store,
                    IF dial = "postgresql"
                    THEN sq + (CHOOSE k \in clash : \A l \in clash : k <= l)
                    ELSE sq)
       ELSE Outcome("none", Some(rows),
                    [j \in DOMAIN store \cup {first + k : k \in 1..n} |->
                        IF j \in DOMAIN store THEN store[j] ELSE rows[j - first]],
                    IF dial = "postgresql" THEN sq + n ELSE sq)

\* seed_database run to its end: nothing is written when the table holds a
\* row (lines 50-53) or when an INSERT fails (lines 99-101)
seed_database ==
    /\ IF DOMAIN productos # {}
       THEN UNCHANGED <<productos, seq>>
       ELSE LET r == seed_flush(productos, seq, dialect,
                                func_now(dialect, now, now))
            IN /\ productos' = r.store
               /\ seq' = r.sq
    /\ UNCHANGED <<now, dialect, request, status, response, sess>>

\* time passes in the store
Tick ==
    /\ now < MaxClock
    /\ now' = now + 1
    /\ UNCHANGED <<productos, seq, dialect, request, status, response, sess>>

Next ==
    \/ \E body \in CreateBodies : crear_producto(body)
    \/ \E producto_id \in RequestIds : obtener_producto(producto_id)
    \/ \E producto_id \in RequestIds, body \in UpdateBodies :
          actualizar_producto(producto_id, body)
    \/ \E producto_id \in RequestIds : eliminar_producto(producto_id)
    \/ Tick

Spec == Init /\ [][Next]_vars

(***************************************************************************)
(* The query handlers, and the specification that serves them between      *)
(* creates, updates and deletes.                                           *)
(***************************************************************************)
\* Query(0, ge=0) and Query(100, ge=1, le=1000)
Query_skip(skip) == skip >= 0
Query_limit(limit) == limit >= 1 /\ limit <= 1000

\* ProductoListResponse: every item is validated as a ProductoResponse
ProductoListResponse(page) ==
    \A i \in 1..Len(page.items) : ProductoResponse(page.items[i]).ok

listar_productos(skip, limit, categoria, disponible) ==
    /\ request' = [op |-> "list", skip |-> skip, limit |-> limit,
                   categoria |-> categoria, disponible |-> disponible]
    /\ IF ~(Query_skip(skip) /\ Query_limit(limit))
       THEN /\ status' = 422
            /\ response' = None
       ELSE \E items \in get_all(productos, dialect, skip, limit,
                                 categoria, disponible) :
               LET page == [items |-> items,
                            total |-> count_all(productos, categoria,
                                                disponible),
                            page |-> (skip \div limit) + 1,
                            size |-> limit]
               IN IF ProductoListResponse(page)
                  THEN status' = 200 /\ response' = Some(page)
                  ELSE status' = 500 /\ response' = None
    /\ UNCHANGED <<productos, seq, now, dialect, sess>>

buscar_productos(nombre, skip, limit) ==
    /\ request' = Request("search")
    /\ IF ~(Query_skip(skip) /\ Query_limit(limit))
       THEN /\ status' = 422
            /\ response' = None
       ELSE \E items \in search_by_nombre(productos, dialect, nombre,
                                          skip, limit) :
               IF \A i \in 1..Len(items) : ProductoResponse(items[i]).ok
               THEN status' = 200 /\ response' = Some(items)
               ELSE status' = 500 /\ response' = None
    /\ UNCHANGED <<productos, seq, now, dialect, sess>>

NextQuery ==
    \/ \E body \in QueryCreateBodies : crear_producto(body)
    \/ \E producto_id \in RequestIds, body \in QueryUpdateBodies :
          actualizar_producto(producto_id, body)
    \/ \E producto_id \in RequestIds : eliminar_producto(producto_id)
    \/ \E skip \in QuerySkips, limit \in QueryLimits,
          categoria \in QueryCategorias, disponible \in QueryDisponibles :
          listar_productos(skip, limit, categoria, disponible)
    \/ \E nombre \in SearchTerms, skip \in QuerySkips, limit \in QueryLimits :
          buscar_productos(nombre, skip, limit)

SpecQuery == Init /\ [][NextQuery]_vars

(***************************************************************************)
(* The specification that serves the requests exercising the validators.   *)
(***************************************************************************)
NextValidation ==
    \/ \E body \in ValidationCreateBodies : crear_producto(body)
    \/ \E producto_id \in RequestIds, body \in ValidationUpdateBodies :
          actualizar_producto(producto_id, body)

SpecValidation == Init /\ [][NextValidation]_vars

(***************************************************************************)
(* The specification that serves the requests whose SKU grows when         *)
(* uppercased, on a table that seed_database may have filled.              *)
(***************************************************************************)
NextSku ==
    \/ \E body \in SkuCreateBodies : crear_producto(body)
    \/ \E producto_id \in RequestIds : obtener_producto(producto_id)
    \/ \E producto_id \in RequestIds, body \in SkuUpdateBodies :
          actualizar_producto(producto_id, body)
    \/ \E producto_id \in RequestIds : eliminar_producto(producto_id)
    \/ seed_database

SpecSku == Init /\ [][NextSku]_vars

(***************************************************************************)
(* Concurrent requests.  The handlers are coroutines that never await: a   *)
(* process runs one handler at a time, and requests race when they are     *)
(* served by different processes.  Each process has one database           *)
(* connection (StaticPool) that all the sessions of the process use.       *)
(* Every statement a request sends (a read, an INSERT, UPDATE or DELETE, a *)
(* COMMIT, a refresh) is a step of its own.  A row written and not yet     *)
(* committed is held by its transaction: no other connection sees it, and  *)
(* the store makes a statement that must see it wait.  get_db closes the   *)
(* session of an answered request in a thread of the thread pool, while    *)
(* the process may be serving the next request; the close ends the         *)
(* session's transaction with a ROLLBACK on the connection of the process. *)
(* sess[w] is the session of the w-th request to arrive:                   *)
(*   proc     the process that serves it                                   *)
(*   pending  TRUE while its INSERT, UPDATE or DELETE is flushed and not   *)
(*            yet committed or rolled back                                 *)
(* The answer of a request is left in request, status and response.  The   *)
(* requests race within one reading of the clock.                          *)
(***************************************************************************)
\* a request arrives at process p and takes session w: the sessions are
\* taken in the order of arrival, a process runs one handler at a time,
\* and the processes are numbered in the order they are first used
Arrives(w, p) ==
    /\ sess[w].pc = "idle"
    /\ \A v \in 1..(w - 1) : sess[v].pc # "idle"
    /\ \A v \in InFlight :
          sess[v].proc = p => sess[v].pc \in {"answered", "done"}
    /\ p <= 1 + Max({sess[v].proc : v \in InFlight})

\* the first step of a request at process p
Begun(p, op, at) ==
    [IdleSession EXCEPT !.pc = at, !.op = op, !.proc = p, !.tx_start = now]

\* the request of session w goes on to the step at
Goes(w, at) ==
    /\ sess' = [sess EXCEPT ![w] = at]
    /\ UNCHANGED <<request, status, response>>

\* a closed session
Closed == [IdleSession EXCEPT !.pc = "done"]

\* the request of session w, served by process p, is answered with status
\* st and body.  Its session is closed later (get_db_close), unless it
\* never queried (422) or ended with its COMMIT (204): closing it then
\* sends nothing
Answered(w, p, op, st, body) ==
    /\ sess' = [sess EXCEPT ![w] =
                  IF st \in {422, 204} THEN Closed
                  ELSE [IdleSession EXCEPT !.pc = "answered", !.proc = p]]
    /\ request' = Request(op)
    /\ status' = st
    /\ response' = body

\* get_db, lines 37-38: db.close() ends the transaction of the session
\* with a ROLLBACK on the connection of the process, which undoes what the
\* handler the process is running has flushed and not yet committed.  A
\* close that finds nothing to undo changes nothing a later step reads: it
\* is a step only when it undoes something, and a session never closed in
\* the model is one closed at such a moment
get_db_close(w) ==
    /\ sess[w].pc = "answered"
    /\ \E v \in InFlight : sess[v].proc = sess[w].proc /\ sess[v].pending
    /\ sess' = [v \in InFlight |->
                  IF v = w THEN Closed
                  ELSE IF sess[v].proc = sess[w].proc /\ sess[v].pending
                  THEN [sess[v] EXCEPT !.pending = FALSE]
                  ELSE sess[v]]
    /\ UNCHANGED <<productos, seq, now, dialect, request, status, response>>

\* the SKUs held by the uncommitted write of session v
TouchedSkus(v) ==
    LET held == IF sess[v].id \in DOMAIN productos
                THEN {productos[sess[v].id].sku} ELSE {}
    IN CASE sess[v].op = "create" -> {Val(sess[v].loaded).sku}
         [] sess[v].op = "seed" ->
               {Val(sess[v].loaded)[k].sku : k \in 1..Len(Val(sess[v].loaded))}
         [] sess[v].op = "update" ->
               held \cup (IF ~IsNone(Attr(Val(sess[v].data), "sku"))
                          THEN {Val(Val(sess[v].data)["sku"])} ELSE {})
         [] OTHER -> held

\* the statement of session w that writes the SKUs skus and the rows ids
\* has to wait for the transaction of another connection: on PostgreSQL
\* for one that holds one of them, on SQLite for any that has written.
\* PostgreSQL waits without limit; SQLite gives up when the wait lasts
\* longer than its busy timeout (OperationalError: database is locked)
Blocked(w, skus, ids) ==
    \E v \in InFlight \ {w} :
        /\ sess[v].pending
        /\ \/ dialect = "sqlite"
           \/ TouchedSkus(v) \cap skus # {}
           \/ sess[v].op \in {"update", "delete"} /\ sess[v].id \in ids

\* crear_producto up to the pre-check read of create (lines 29-31)
crear_producto_check(w, p, body) ==
    LET m == ParsedCreate[body]
    IN /\ Arrives(w, p)
       /\ IF ~m.ok THEN Answered(w, p, "create", 422, None)
          ELSE IF create_existing_product(productos, m.v)
          THEN Answered(w, p, "create", 400, None)
          ELSE Goes(w, [Begun(p, "create", "create_insert") EXCEPT
                          !.data = Some(m.v)])
       /\ UNCHANGED <<productos, seq, now, dialect>>

\* create, lines 34-36: the INSERT that db.commit() flushes.  PostgreSQL
\* forms the row first, taking its id from the sequence, and enters it in
\* the unique index in a later step (crear_producto_index); SQLite does
\* the whole statement under its write lock
crear_producto_insert(w) ==
    /\ sess[w].pc = "create_insert"
    /\ LET producto == Val(sess[w].data)
           ts == func_now(dialect, sess[w].tx_start, now)
       IN IF dialect = "postgresql"
          THEN IF ~String_20(dialect, producto.sku)
               THEN /\ Answered(w, sess[w].proc, "create", 500, None)
                    /\ UNCHANGED seq
               ELSE /\ seq' = seq + 1
                    /\ Goes(w, [sess[w] EXCEPT
                                  !.pc = "create_index",
                                  !.loaded = Some(Producto(NewId(productos, seq,
                                                                 dialect),
                                                           producto, ts))])
          ELSE IF Blocked(w, {producto.sku}, {})
          THEN /\ Answered(w, sess[w].proc, "create", 500, None)
               /\ UNCHANGED seq
          ELSE LET r == create_flush(productos, seq, dialect, ts, producto)
               IN /\ seq' = r.sq
                  /\ IF r.exc = "none"
                     THEN Goes(w, [sess[w] EXCEPT !.pc = "create_commit",
                                                 !.loaded = r.ret,
                                                 !.pending = TRUE])
                     ELSE Answered(w, sess[w].proc, "create",
                                   StatusOf(r, 201), None)
    /\ UNCHANGED <<productos, now, dialect>>

\* the INSERT of create on PostgreSQL, from the unique index on: it waits
\* for the transaction that holds the SKU, and uq_producto_sku then
\* refuses the row (IntegrityError) or takes it
crear_producto_index(w) ==
    /\ sess[w].pc = "create_index"
    /\ ~Blocked(w, {Val(sess[w].loaded).sku}, {})
    /\ IF uq_producto_sku(productos, Val(sess[w].loaded).id,
                          Val(sess[w].loaded).sku)
       THEN Answered(w, sess[w].proc, "create", 500, None)
       ELSE Goes(w, [sess[w] EXCEPT !.pc = "create_commit",
                                   !.pending = TRUE])
    /\ UNCHANGED <<productos, seq, now, dialect>>

\* create, line 36: the COMMIT stores what the connection still holds
crear_producto_commit(w) ==
    /\ sess[w].pc = "create_commit"
    /\ productos' = IF sess[w].pending
                    THEN WithRow(productos, Val(sess[w].loaded))
                    ELSE productos
    /\ Goes(w, [sess[w] EXCEPT !.pc = "create_refresh",
                              !.id = Val(sess[w].loaded).id,
                              !.loaded = None,
                              !.pending = FALSE])
    /\ UNCHANGED <<seq, now, dialect>>

\* create, line 37, and the response: the row is read again
crear_producto_refresh(w) ==
    /\ sess[w].pc = "create_refresh"
    /\ LET a == Answer(refresh(productos, seq, sess[w].id), 201)
       IN Answered(w, sess[w].proc, "create", a.status, a.body)
    /\ UNCHANGED <<productos, seq, now, dialect>>

\* the step that follows the reads of update: there is no UPDATE when no
\* column differs from the loaded row
AfterReads(db_producto, producto_update) ==
    IF changed_columns(db_producto, producto_update) = {}
    THEN "update_refresh" ELSE "update_update"

\* actualizar_producto up to the load of update (line 139)
actualizar_producto_load(w, p, producto_id, body) ==
    LET m == ParsedUpdate[body]
    IN /\ Arrives(w, p)
       /\ IF ~m.ok THEN Answered(w, p, "update", 422, None)
          ELSE IF producto_id \notin DOMAIN productos
          THEN Answered(w, p, "update", 404, None)
          ELSE Goes(w, [Begun(p, "update",
                              IF update_reads_sku(productos[producto_id], m.v)
                              THEN "update_check"
                              ELSE AfterReads(productos[producto_id], m.v))
                          EXCEPT !.id = producto_id,
                                 !.data = Some(m.v),
                                 !.loaded = Some(productos[producto_id])])
       /\ UNCHANGED <<productos, seq, now, dialect>>

\* update, lines 145-149: the SKU is looked up and compared
actualizar_producto_check(w) ==
    /\ sess[w].pc = "update_check"
    /\ IF update_existing_product(productos, Val(sess[w].loaded), sess[w].id,
                                  Val(sess[w].data))
       THEN Answered(w, sess[w].proc, "update", 400, None)
       ELSE Goes(w, [sess[w] EXCEPT
                       !.pc = AfterReads(Val(sess[w].loaded), Val(sess[w].data))])
    /\ UNCHANGED <<productos, seq, now, dialect>>

\* the SKU an UPDATE writes, if it writes one
WrittenSku(db_producto, producto_update) ==
    IF /\ "sku" \in changed_columns(db_producto, producto_update)
       /\ ~IsNone(producto_update["sku"])
    THEN {Val(producto_update["sku"])} ELSE {}

\* update, lines 152-156: setattr and the UPDATE that db.commit() flushes
actualizar_producto_update(w) ==
    /\ sess[w].pc = "update_update"
    /\ IF Blocked(w, WrittenSku(Val(sess[w].loaded), Val(sess[w].data)),
                  {sess[w].id})
       THEN /\ dialect = "sqlite"
            /\ Answered(w, sess[w].proc, "update", 500, None)
       ELSE LET r == update_flush(productos, dialect, Val(sess[w].loaded),
                                  sess[w].id, Val(sess[w].data),
                                  func_now(dialect, sess[w].tx_start, now))
            IN IF r.exc = "none"
               THEN Goes(w, [sess[w] EXCEPT !.pc = "update_commit",
                                           !.loaded = Some(r.store[sess[w].id]),
                                           !.pending = TRUE])
               ELSE Answered(w, sess[w].proc, "update", StatusOf(r, 200), None)
    /\ UNCHANGED <<productos, seq, now, dialect>>

\* update, line 156: the COMMIT stores what the connection still holds
actualizar_producto_commit(w) ==
    /\ sess[w].pc = "update_commit"
    /\ productos' =
          IF sess[w].pending
          THEN WithRow(productos, Val(sess[w].loaded))
          ELSE productos
    /\ Goes(w, [sess[w] EXCEPT !.pc = "update_refresh", !.pending = FALSE])
    /\ UNCHANGED <<seq, now, dialect>>

\* update, line 157, and the response: the row is read again
actualizar_producto_refresh(w) ==
    /\ sess[w].pc = "update_refresh"
    /\ LET a == Answer(refresh(productos, seq, sess[w].id), 200)
       IN Answered(w, sess[w].proc, "update", a.status, a.body)
    /\ UNCHANGED <<productos, seq, now, dialect>>

\* eliminar_producto up to the read of delete (lines 171-173)
eliminar_producto_check(w, p, producto_id) ==
    /\ Arrives(w, p)
    /\ IF producto_id \notin DOMAIN productos
       THEN Answered(w, p, "delete", 404, None)
       ELSE Goes(w, [Begun(p, "delete", "delete_delete") EXCEPT
                       !.id = producto_id])
    /\ UNCHANGED <<productos, seq, now, dialect>>

\* delete, lines 175-176: the DELETE that db.commit() flushes; a DELETE
\* that matches no row is no error
eliminar_producto_delete(w) ==
    /\ sess[w].pc = "delete_delete"
    /\ IF Blocked(w, {}, {sess[w].id})
       THEN /\ dialect = "sqlite"
            /\ Answered(w, sess[w].proc, "delete", 500, None)
       ELSE Goes(w, [sess[w] EXCEPT
                       !.pc = "delete_commit",
                       !.pending = sess[w].id \in DOMAIN productos])
    /\ UNCHANGED <<productos, seq, now, dialect>>

\* delete, lines 176-177: the COMMIT stores what the connection still
\* holds, and the request is answered
eliminar_producto_commit(w) ==
    /\ sess[w].pc = "delete_commit"
    /\ productos' = IF sess[w].pending
                    THEN delete(productos, sess[w].id).store
                    ELSE productos
    /\ Answered(w, sess[w].proc, "delete", 204, None)
    /\ UNCHANGED <<seq, now, dialect>>

\* listar_productos up to the read of the page (get_all, lines 76-82)
listar_productos_get_all(w, p, skip, limit, categoria, disponible) ==
    /\ Arrives(w, p)
    /\ Query_skip(skip) /\ Query_limit(limit)
    /\ \E items \in get_all(productos, dialect, skip, limit,
                             categoria, disponible) :
          Goes(w, [Begun(p, "list", "list_count") EXCEPT
                     !.data = Some([skip |-> skip,
                                    limit |-> limit, categoria |-> categoria,
                                    disponible |-> disponible]),
                     !.loaded = Some(items)])
    /\ UNCHANGED <<productos, seq, now, dialect>>

\* listar_productos from the count (count_all, lines 84-87) to the response
listar_productos_count_all(w) ==
    /\ sess[w].pc = "list_count"
    /\ LET q == Val(sess[w].data)
           page == [items |-> Val(sess[w].loaded),
                    total |-> count_all(productos, q.categoria, q.disponible),
                    page |-> (q.skip \div q.limit) + 1,
                    size |-> q.limit]
       IN IF ProductoListResponse(page)
          THEN Answered(w, sess[w].proc, "list", 200, Some(page))
          ELSE Answered(w, sess[w].proc, "list", 500, None)
    /\ UNCHANGED <<productos, seq, now, dialect>>

\* the rows a transaction has inserted, over the committed store
WithRows(store, rows) ==
    [j \in DOMAIN store \cup {rows[k].id : k \in 1..Len(rows)} |->
       IF \E k \in 1..Len(rows) : rows[k].id = j
       THEN rows[CHOOSE k \in 1..Len(rows) : rows[k].id = j]
       ELSE store[j]]

\* seed_database up to its read (lines 47-53), in a session of its own.
\* No handler calls it: it runs in a process of its own
seed_database_check(w, p) ==
    /\ Arrives(w, p)
    /\ \A v \in InFlight : sess[v].proc # p
    /\ Goes(w, IF DOMAIN productos # {} THEN Closed
               ELSE [Begun(p, "seed", "seed_insert") EXCEPT
                       !.loaded = Some(<<>>)])
    /\ UNCHANGED <<productos, seq, now, dialect>>

\* seed_database, lines 92-96: the INSERT of the next row of those that
\* db.commit() flushes; when it fails the function rolls back and ends
\* (lines 99-103).  PostgreSQL forms the row first, taking its id from
\* the sequence, and enters it in the unique index in a later step
\* (seed_database_index); SQLite does the whole statement under its
\* write lock
seed_database_insert(w) ==
    /\ sess[w].pc = "seed_insert"
    /\ LET rows == Val(sess[w].loaded)
           producto == productos_prueba[Len(rows) + 1]
           ts == func_now(dialect, sess[w].tx_start, now)
       IN IF dialect = "postgresql"
          THEN /\ seq' = seq + 1
               /\ Goes(w, [sess[w] EXCEPT
                             !.pc = "seed_index",
                             !.data = Some(Producto(NewId(productos, seq,
                                                          dialect),
                                                    producto, ts))])
          ELSE IF Blocked(w, {producto.sku}, {})
          THEN /\ Goes(w, Closed)
               /\ UNCHANGED seq
          ELSE LET r == create_flush(WithRows(productos, rows), seq, dialect,
                                     ts, producto)
               IN /\ seq' = r.sq
                  /\ IF r.exc = "none"
                     THEN Goes(w, [sess[w] EXCEPT
                                     !.pc = IF Len(rows) + 1 = Len(productos_prueba)
                                            THEN "seed_commit" ELSE "seed_insert",
                                     !.loaded = Some(Append(rows, Val(r.ret))),
                                     !.pending = TRUE])
                     ELSE Goes(w, Closed)
    /\ UNCHANGED <<productos, now, dialect>>

\* an INSERT of seed_database on PostgreSQL, from the unique index on: it
\* waits for the transaction that holds the SKU, and uq_producto_sku then
\* refuses the row (lines 99-103) or takes it
seed_database_index(w) ==
    /\ sess[w].pc = "seed_index"
    /\ LET rows == Val(sess[w].loaded)
           row == Val(sess[w].data)
       IN /\ ~Blocked(w, {row.sku}, {})
          /\ IF uq_producto_sku(WithRows(productos, rows), row.id, row.sku)
             THEN Goes(w, Closed)
             ELSE Goes(w, [sess[w] EXCEPT
                             !.pc = IF Len(rows) + 1 = Len(productos_prueba)
                                    THEN "seed_commit" ELSE "seed_insert",
                             !.data = None,
                             !.loaded = Some(Append(rows, row)),
                             !.pending = TRUE])
    /\ UNCHANGED <<productos, seq, now, dialect>>

\* seed_database, line 96: the COMMIT stores what the connection still
\* holds
seed_database_commit(w) ==
    /\ sess[w].pc = "seed_commit"
    /\ productos' = IF sess[w].pending
                    THEN WithRows(productos, Val(sess[w].loaded))
                    ELSE productos
    /\ Goes(w, Closed)
    /\ UNCHANGED <<seq, now, dialect>>

\* creates, updates and listings racing with one another
NextConc ==
    \/ \E w \in InFlight, p \in Procs, body \in ConcCreateBodies :
          crear_producto_check(w, p, body)
    \/ \E w \in InFlight : crear_producto_insert(w)
    \/ \E w \in InFlight : crear_producto_index(w)
    \/ \E w \in InFlight : crear_producto_commit(w)
    \/ \E w \in InFlight : crear_producto_refresh(w)
    \/ \E w \in InFlight, p \in Procs, producto_id \in 1..MaxId,
          body \in ConcUpdateBodies :
          actualizar_producto_load(w, p, producto_id, body)
    \/ \E w \in InFlight : actualizar_producto_check(w)
    \/ \E w \in InFlight : actualizar_producto_update(w)
    \/ \E w \in InFlight : actualizar_producto_commit(w)
    \/ \E w \in InFlight : actualizar_producto_refresh(w)
    \/ \E w \in InFlight, p \in Procs, limit \in {MaxPage} :
          listar_productos_get_all(w, p, 0, limit, None, None)
    \/ \E w \in InFlight : listar_productos_count_all(w)
    \/ \E w \in InFlight : get_db_close(w)

\* the requests race on the table that earlier requests have left: an
\* empty one, or one that holds the rows of two creates
InitConc ==
    /\ now = 0
    /\ dialect \in Dialects
    /\ request = Request("none")
    /\ status = 0
    /\ response = None
    /\ sess = [w \in InFlight |-> IdleSession]
    /\ \E stored \in BOOLEAN :
          LET first == create([j \in {} |-> None], 0, dialect, 0,
                              ParsedCreate[Body_pan].v)
              second == create(first.store, first.sq, dialect, 0,
                               ParsedCreate[Body_pas].v)
          IN /\ productos = IF stored THEN second.store ELSE [j \in {} |-> None]
             /\ seq = IF stored THEN second.sq ELSE 0

SpecConc == InitConc /\ [][NextConc]_vars

\* seed_database racing with creates and deletes
NextSeed ==
    \/ \E w \in InFlight, p \in Procs, body \in ConcCreateBodies :
          crear_producto_check(w, p, body)
    \/ \E w \in InFlight : crear_producto_insert(w)
    \/ \E w \in InFlight : crear_producto_index(w)
    \/ \E w \in InFlight : crear_producto_commit(w)
    \/ \E w \in InFlight : crear_producto_refresh(w)
    \/ \E w \in InFlight, p \in Procs, producto_id \in 1..MaxId :
          eliminar_producto_check(w, p, producto_id)
    \/ \E w \in InFlight : eliminar_producto_delete(w)
    \/ \E w \in InFlight : eliminar_producto_commit(w)
    \/ \E w \in InFlight, p \in Procs : seed_database_check(w, p)
    \/ \E w \in InFlight : seed_database_insert(w)
    \/ \E w \in InFlight : seed_database_index(w)
    \/ \E w \in InFlight : seed_database_commit(w)
    \/ \E w \in InFlight : get_db_close(w)

SpecSeed == Init /\ [][NextSeed]_vars

(***************************************************************************)
(* Properties.                                                             *)
(***************************************************************************)
\* text comparison that ignores letter case
SameIgnoringCase(a, b) == upper(a) = upper(b)

\* C1: after any sequence of create, update and delete requests, each run
\* to completion, no two stored products have SKUs that are equal when
\* compared case-insensitively.
C1_SkuUniqueIgnoringCase ==
    \A i \in DOMAIN productos : \A j \in DOMAIN productos :
        i # j => ~SameIgnoringCase(productos[i].sku, productos[j].sku)

\* two products are stored and the last request, a create, was refused as
\* a duplicate
C1_Witness ==
    /\ Cardinality(DOMAIN productos) = 2
    /\ request.op = "create"
    /\ status = 400

\* C2: when create/update requests for the same SKU run concurrently,
\* each in its own session and with their reads, writes and commits
\* interleaved in any order, the table never holds two rows with the same
\* SKU, and a write of a SKU that a stored row already holds (an INSERT, or
\* an UPDATE that changes the SKU) is rejected by the unique constraint:
\* the request is answered 500 and nothing of it is stored.
C2_ConcurrentSkuUnique ==
    /\ [](\A i \in DOMAIN productos : \A j \in DOMAIN productos :
            i # j => productos[i].sku # productos[j].sku)
    /\ [][\A w \in InFlight :
            /\ (crear_producto_index(w)
                /\ \E j \in DOMAIN productos :
                      productos[j].sku = Val(sess[w].loaded).sku)
               => (productos' = productos /\ status' = 500
                   /\ sess'[w].pc = "answered")
            /\ (crear_producto_insert(w)
                /\ dialect = "sqlite"
                /\ \E j \in DOMAIN productos :
                      productos[j].sku = Val(sess[w].data).sku)
               => (productos' = productos /\ status' = 500
                   /\ sess'[w].pc = "answered")
            /\ (actualizar_producto_update(w)
                /\ \E j \in DOMAIN productos :
                      /\ j # sess[w].id
                      /\ {productos[j].sku}
                            = WrittenSku(Val(sess[w].loaded), Val(sess[w].data)))
               => (productos' = productos /\ status' = 500
                   /\ sess'[w].pc = "answered")]_vars

\* two creates served by two processes raced on PostgreSQL from an empty
\* table: both took an id from the sequence, the second to reach the
\* unique index was rejected and answered 500, and only the row of the
\* first is stored
C2_Witness ==
    /\ dialect = "postgresql"
    /\ sess[1].pc = "answered" /\ sess[2].pc = "answered"
    /\ sess[1].proc # sess[2].proc
    /\ \A w \in InFlight \ {1, 2} : sess[w].pc = "idle"
    /\ request.op = "create"
    /\ status = 500
    /\ seq = 2
    /\ Cardinality(DOMAIN productos) = 1
    /\ \E j \in DOMAIN productos : productos[j].sku = Sku_PAN_0001

\* C3: a create request whose normalized SKU equals the SKU of a stored
\* product fails with the duplicate-SKU condition (ValueError, HTTP 400),
\* inserts nothing and leaves every existing row unchanged.
C3_DuplicateCreateRejected ==
    [][\A body \in CreateBodies :
        (/\ request'.op = "create"
         /\ crear_producto(body)
         /\ ParsedCreate[body].ok
         /\ \E j \in DOMAIN productos :
               productos[j].sku = upper(Val(body["sku"])))
        => /\ create(productos, seq, dialect, now, ParsedCreate[body].v).exc
                = "ValueError"
           /\ status' = 400
           /\ response' = None
           /\ productos' = productos]_vars

\* the last request was a create answered 400 while the table holds rows
C3_Witness ==
    /\ request.op = "create"
    /\ status = 400
    /\ DOMAIN productos # {}

\* C4: every create request ends in exactly one of three outcomes, 201,
\* 400 or 422, under any interleaving with other requests; a create that
\* loses a concurrent race for its SKU is answered as a duplicate SKU and
\* not as an untyped failure.  The creates race with one another, with
\* deletes and with seed_database.
C4_CreateOutcomeTyped ==
    (request.op = "create" /\ \E w \in InFlight : sess[w].pc # "idle")
    => status \in {201, 400, 422}

\* C5: for every valid create payload whose SKU is not stored, create
\* succeeds and get_by_id on the returned id, with no mutation in between,
\* returns a record whose nombre, categoria, precio_unitario, stock and
\* disponible equal the payload's values, whose sku is the payload's sku
\* uppercased, and which carries a system-assigned id, fecha_registro and
\* fecha_actualizacion.  The payloads include one whose SKU has the
\* greatest length validation accepts and grows when uppercased.
C5_CreateThenGet ==
    [][\A body \in CreateBodies \cup SkuCreateBodies :
        (/\ request'.op = "create"
         /\ crear_producto(body)
         /\ ParsedCreate[body].ok
         /\ ~\E j \in DOMAIN productos :
               productos[j].sku = upper(Val(body["sku"])))
        => /\ status' = 201
           /\ ~IsNone(response')
           /\ LET got == get_by_id(productos', Val(response').id)
              IN /\ ~IsNone(got)
                 /\ Val(got).nombre = Val(body["nombre"])
                 /\ Val(got).sku = upper(Val(body["sku"]))
                 /\ Val(got).categoria = Val(body["categoria"])
                 /\ DecEq(Val(got).precio_unitario, Val(body["precio_unitario"]))
                 /\ Val(got).stock = Val(body["stock"])
                 /\ Val(got).disponible =
                        (IF "disponible" \in DOMAIN body
                         THEN Val(body["disponible"]) ELSE TRUE)
                 /\ Val(got).id \in 1..MaxId
                 /\ Val(got).id \notin DOMAIN productos
                 /\ Val(got).fecha_registro = now
                 /\ Val(got).fecha_actualizacion = now
                 /\ Val(got) = Val(response')]_vars

\* C6: every SKU written to the table by a create or an update is the
\* uppercase form of the submitted SKU, so every stored sku equals its own
\* uppercase form.
C6_StoredSkuUppercase ==
    /\ [](\A j \in DOMAIN productos : productos[j].sku = upper(productos[j].sku))
    /\ [][/\ \A body \in CreateBodies :
               (request'.op = "create" /\ status' = 201 /\ crear_producto(body))
               => Val(response').sku = upper(Val(body["sku"]))
          /\ \A producto_id \in RequestIds : \A body \in UpdateBodies :
               (/\ request'.op = "update"
                /\ status' = 200
                /\ "sku" \in DOMAIN body
                /\ actualizar_producto(producto_id, body))
               => productos'[producto_id].sku = upper(Val(body["sku"]))]_vars

\* an update gave the product created as "Pan" the SKU submitted as
\* "Pas-0101"
C6_Witness ==
    /\ request.op = "update"
    /\ status = 200
    /\ \E j \in DOMAIN productos :
          /\ productos[j].categoria = "Pan"
          /\ productos[j].sku = upper(Sku_Pas_0101)
          /\ Sku_Pas_0101 # upper(Sku_Pas_0101)

\* the value a supplied field holds once stored
StoredValueMatches(f, stored, supplied) ==
    CASE f = "sku" -> stored = upper(Val(supplied))
      [] f = "precio_unitario" -> DecEq(stored, Val(supplied))
      [] OTHER -> stored = Val(supplied)

\* C7: a successful update gives every supplied field, among nombre, sku,
\* categoria, precio_unitario, stock and disponible, the supplied value and
\* leaves every field not supplied at its prior value; it never changes id
\* or fecha_registro, and it never changes any other row.
C7_UpdateFrame ==
    [][\A producto_id \in RequestIds : \A body \in UpdateBodies :
        (/\ request'.op = "update"
         /\ status' = 200
         /\ actualizar_producto(producto_id, body))
        => /\ DOMAIN productos' = DOMAIN productos
           /\ \A j \in DOMAIN productos :
                 j # producto_id => productos'[j] = productos[j]
           /\ productos'[producto_id].id = productos[producto_id].id
           /\ productos'[producto_id].fecha_registro
                 = productos[producto_id].fecha_registro
           /\ \A f \in FieldNames :
                 IF f \in DOMAIN body
                 THEN StoredValueMatches(f, productos'[producto_id][f], body[f])
                 ELSE productos'[producto_id][f] = productos[producto_id][f]]_vars

\* an update that supplied every field but sku succeeded and kept the SKU,
\* while another product is stored
C7_Witness ==
    /\ request.op = "update"
    /\ status = 200
    /\ Cardinality(DOMAIN productos) = 2
    /\ ~IsNone(response)
    /\ Val(response).nombre = Txt_Premium
    /\ Val(response).stock = 150
    /\ Val(response).disponible = FALSE
    /\ Val(response).sku = Sku_PAN_0001

\* C8: every successful update of an
\* existing product refreshes fecha_actualizacion to the current time,
\* including an update that supplies no fields and an update whose
\* supplied values all equal the stored ones.
C8_EveryUpdateRefreshes ==
    [][\A producto_id \in RequestIds : \A body \in UpdateBodies :
        (/\ request'.op = "update"
         /\ status' = 200
         /\ actualizar_producto(producto_id, body))
        => productos'[producto_id].fecha_actualizacion = now]_vars

\* C9: every stored product has fecha_actualizacion >= fecha_registro; the
\* two are equal right after create; fecha_registro is never changed by a
\* later operation.
C9_Timestamps ==
    /\ [](\A j \in DOMAIN productos :
            productos[j].fecha_actualizacion >= productos[j].fecha_registro)
    /\ [][/\ \A body \in CreateBodies :
               (request'.op = "create" /\ status' = 201 /\ crear_producto(body))
               => Val(response').fecha_registro = Val(response').fecha_actualizacion
          /\ \A j \in DOMAIN productos \cap DOMAIN productos' :
               productos'[j].fecha_registro = productos[j].fecha_registro]_vars

\* a stored product was updated after the clock moved on from its creation
C9_Witness ==
    \E j \in DOMAIN productos :
        productos[j].fecha_actualizacion > productos[j].fecha_registro

\* C10: an update of an existing product that supplies a SKU which, once
\* normalized, differs from the product's SKU and equals the SKU of another
\* stored product fails with the duplicate-SKU condition (400) and changes
\* no row; an update that supplies the product's own SKU, in any letter
\* case, is not a duplicate and succeeds.  The payloads include one whose
\* SKU grows when uppercased.
C10_UpdateSkuCheck ==
    [][\A producto_id \in DOMAIN productos :
       \A body \in UpdateBodies \cup SkuUpdateBodies :
        (/\ request'.op = "update"
         /\ "sku" \in DOMAIN body
         /\ ~IsNone(body["sku"])
         /\ ParsedUpdate[body].ok
         /\ actualizar_producto(producto_id, body))
        => LET sku == upper(Val(body["sku"]))
           IN IF sku = productos[producto_id].sku
              THEN (\A f \in DOMAIN body : ~IsNone(body[f]))
                   => /\ status' = 200
                      /\ productos'[producto_id].sku = productos[producto_id].sku
              ELSE (\E j \in DOMAIN productos :
                       j # producto_id /\ productos[j].sku = sku)
                   => /\ status' = 400
                      /\ productos' = productos]_vars

\* C11: an update addressed to an id that is not stored reports not-found
\* (None from the repository, 404 from the handler) and leaves the table
\* unchanged whatever the valid payload is, also when the payload's SKU is
\* held by a stored product: not-found comes before the duplicate check.
C11_UpdateMissingId ==
    [][\A producto_id \in RequestIds : \A body \in UpdateBodies :
        (/\ request'.op = "update"
         /\ producto_id \notin DOMAIN productos
         /\ ParsedUpdate[body].ok
         /\ actualizar_producto(producto_id, body))
        => /\ update(productos, dialect, producto_id, ParsedUpdate[body].v, now)
                = Outcome("none", None, productos, 0)
           /\ status' = 404
           /\ response' = None
           /\ productos' = productos]_vars

\* an update was answered 404 while the table holds the SKU that one of
\* the update payloads submits
C11_Witness ==
    /\ request.op = "update"
    /\ status = 404
    /\ \E j \in DOMAIN productos : \E body \in UpdateBodies :
          /\ "sku" \in DOMAIN body
          /\ productos[j].sku = upper(Val(body["sku"]))

\* C12: delete of a stored id removes exactly that row, leaves every other
\* row unchanged and returns true (204), after which get_by_id reports
\* not-found; delete of an id that is not stored returns false (404) and
\* leaves the table unchanged, so a repeated delete reports not-found.
C12_Delete ==
    [][\A producto_id \in RequestIds :
        (request'.op = "delete" /\ eliminar_producto(producto_id))
        => IF producto_id \in DOMAIN productos
           THEN /\ status' = 204
                /\ DOMAIN productos' = DOMAIN productos \ {producto_id}
                /\ \A j \in DOMAIN productos' : productos'[j] = productos[j]
                /\ IsNone(get_by_id(productos', producto_id))
                /\ delete(productos', producto_id).ret = FALSE
           ELSE /\ status' = 404
                /\ productos' = productos]_vars

\* a delete was answered 204 and another product is still stored
C12_Witness ==
    /\ request.op = "delete"
    /\ status = 204
    /\ Cardinality(DOMAIN productos) = 1
    /\ seq = 2

\* C13: once a product is deleted its SKU is free: a create request that
\* follows the delete and submits the SKU of the deleted product succeeds
\* (it is answered 201) and is not refused as a duplicate.
C13_SkuFreeAfterDelete ==
    [][\A producto_id \in DOMAIN productos :
        (/\ request'.op = "delete"
         /\ status' = 204
         /\ eliminar_producto(producto_id))
        => \A body \in CreateBodies \cup SkuCreateBodies :
              (/\ ParsedCreate[body].ok
               /\ ParsedCreate[body].v.sku = productos[producto_id].sku)
              => Answer(create(productos', seq', dialect,
                               func_now(dialect, now', now'),
                               ParsedCreate[body].v), 201).status = 201]_vars

\* the rows of a returned list, as a set
Rows(items) == {items[i] : i \in 1..Len(items)}

\* the ids of the stored rows that match every supplied filter
Matching(categoria, disponible) ==
    {j \in DOMAIN productos :
        /\ ~IsNone(categoria) => productos[j].categoria = Val(categoria)
        /\ ~IsNone(disponible) => productos[j].disponible = Val(disponible)}

\* C14: for every table and every combination of the categoria and
\* disponible filters, a listing with skip 0 and a limit of at least the
\* table's size returns exactly the stored rows that match every supplied
\* filter; a filter that is not supplied does not restrict, and a supplied
\* categoria, whatever string it is (outside the enumeration, or empty),
\* restricts the result to the rows whose categoria equals it.
C14_ListFilters ==
    [][(/\ request'.op = "list"
        /\ status' = 200
        /\ request'.skip = 0
        /\ request'.limit >= Cardinality(DOMAIN productos))
       => LET items == Val(response').items
              match == Matching(request'.categoria, request'.disponible)
          IN /\ Rows(items) = {productos[j] : j \in match}
             /\ Len(items) = Cardinality(match)]_vars

\* C15: for every table and every combination of filters, count_all
\* returns the number of rows that get_all returns for the same filters
\* when pagination does not truncate; the total of a listing is this
\* count, whatever its skip and limit are.
C15_CountMatchesList ==
    [][(request'.op = "list" /\ status' = 200)
       => /\ Val(response').total
                = count_all(productos, request'.categoria, request'.disponible)
          /\ \A full \in get_all(productos, dialect, 0,
                                 Cardinality(DOMAIN productos) + 1,
                                 request'.categoria, request'.disponible) :
                Val(response').total = Len(full)
          /\ Len(Val(response').items) <= Val(response').total]_vars

\* a listing that skipped the only matching row of a two-row table still
\* reports a total of one
C15_Witness ==
    /\ request.op = "list"
    /\ status = 200
    /\ Cardinality(DOMAIN productos) = 2
    /\ request.skip = 1
    /\ ~IsNone(request.disponible)
    /\ Val(response).total = 1
    /\ Val(response).items = <<>>

\* C16: for a fixed table with N rows matching the filters, a listing
\* returns min(limit, max(0, N - skip)) rows, namely the rows at positions
\* skip+1 .. skip+limit of one fixed ordering of the matching rows: two
\* listings of the same table with the same filters are pages of one and
\* the same ordering, so that successive pages neither overlap nor miss a
\* row.
C16_Pagination ==
    [][(request'.op = "list" /\ status' = 200)
       => LET match == {j \in DOMAIN productos :
                          \E full \in get_all(productos, dialect, 0,
                                              Cardinality(DOMAIN productos) + 1,
                                              request'.categoria,
                                              request'.disponible) :
                             productos[j] \in Rows(full)}
              N == Cardinality(match)
          IN /\ Len(Val(response').items)
                   = Min(request'.limit, Max({0, N - request'.skip}))
             /\ (/\ request.op = "list"
                 /\ status = 200
                 /\ request.categoria = request'.categoria
                 /\ request.disponible = request'.disponible)
                => \E ord \in Enumerations(match) :
                      /\ Val(response).items
                            = offset_limit(productos, ord, request.skip,
                                           request.limit)
                      /\ Val(response').items
                            = offset_limit(productos, ord, request'.skip,
                                           request'.limit)]_vars

\* s contains t as a contiguous substring when letter case is ignored
Contains(s, t) ==
    \E i \in 0..(Len(s) - Len(t)) :
        \A k \in 1..Len(t) : UpperChar(s[i + k]) = UpperChar(t[k])

\* C20: for every table and every search string, a search with skip 0 and
\* a limit of at least the table's size returns exactly the stored rows
\* whose nombre contains the search string as a contiguous substring,
\* ignoring letter case; also for a search string that contains % or _.
C20_SearchSubstring ==
    [][\A nombre \in SearchTerms : \A limit \in QueryLimits :
        (/\ request'.op = "search"
         /\ status' = 200
         /\ limit >= Cardinality(DOMAIN productos)
         /\ buscar_productos(nombre, 0, limit))
        => LET match == {j \in DOMAIN productos :
                           Contains(productos[j].nombre, nombre)}
           IN /\ Rows(Val(response')) = {productos[j] : j \in match}
              /\ Len(Val(response')) = Cardinality(match)]_vars

\* two non-empty segments separated by exactly one hyphen, 3 to 20
\* characters in all
WellFormedSku(sku) ==
    /\ Len(sku) >= 3
    /\ Len(sku) <= 20
    /\ Cardinality({i \in 1..Len(sku) : sku[i] = "-"}) = 1
    /\ sku[1] # "-"
    /\ sku[Len(sku)] # "-"

\* C17: SKU validation, on create and on an update that supplies a SKU,
\* accepts a SKU exactly when it has 3 to 20 characters and is made of two
\* non-empty segments separated by exactly one hyphen; a SKU without a
\* hyphen, with more than one, or with an empty segment before or after
\* the hyphen ("AB-", "-AB") is rejected (422).
C17_SkuFormat ==
    [][/\ \A sku \in ValidationSkus :
            (/\ request'.op = "create"
             /\ crear_producto([Body_pan EXCEPT !.sku = Some(sku)]))
            => (status' # 422 <=> WellFormedSku(sku))
       /\ \A producto_id \in RequestIds : \A body \in ValidationUpdateBodies :
            (/\ request'.op = "update"
             /\ DOMAIN body = {"sku"}
             /\ ~IsNone(body["sku"])
             /\ actualizar_producto(producto_id, body))
            => (status' # 422 <=> WellFormedSku(Val(body["sku"])))]_vars

\* a price greater than 0 written with at most 2 fractional digits (a
\* trailing zero is a digit: 1.250 is written with three)
ValidPrecio(precio) == precio.coef > 0 /\ precio.exp >= -2

\* C18: validation accepts a precio_unitario exactly when it is greater
\* than 0 and has at most 2 fractional digits, and a stock exactly when it
\* is >= 0: 0, 0.00 and 1.255 are rejected as prices, 0.01 and 1.25 are
\* accepted, stock -1 is rejected and stock 0 is accepted.
C18_PrecioStock ==
    /\ [](/\ \A precio \in {Dec(0, 0), Dec(0, -2), Dec(1255, -3)} :
              ~ProductoCreate([Body_pan EXCEPT
                                 !.precio_unitario = Some(precio)]).ok
          /\ \A precio \in {Dec(1, -2), Dec(125, -2)} :
              ProductoCreate([Body_pan EXCEPT
                                !.precio_unitario = Some(precio)]).ok
          /\ ~ProductoCreate([Body_pan EXCEPT !.stock = Some(-1)]).ok
          /\ ProductoCreate([Body_pan EXCEPT !.stock = Some(0)]).ok)
    /\ [][/\ \A precio \in ValidationPrecios :
               (/\ request'.op = "create"
                /\ crear_producto([Body_pan EXCEPT
                                     !.precio_unitario = Some(precio)]))
               => /\ status' # 422 <=> ValidPrecio(precio)
                  /\ status' = 201
                        => DecEq(Val(response').precio_unitario, precio)
          /\ \A stock \in ValidationStocks :
               (/\ request'.op = "create"
                /\ crear_producto([Body_pan EXCEPT !.stock = Some(stock)]))
               => /\ status' # 422 <=> stock >= 0
                  /\ status' = 201 => Val(response').stock = stock]_vars

\* the create of a product priced 0.01 was answered 201
C18_Witness ==
    /\ request.op = "create"
    /\ status = 201
    /\ Val(response).precio_unitario = Dec(1, -2)
    /\ Val(response).stock = 120

\* C19: in every reachable state, whatever creates, updates and deletes
\* led to it, every stored row has a nombre of 1 to 150 characters, a
\* categoria of the enumeration, a precio_unitario greater than 0 with at
\* most 2 fractional digits, a stock >= 0 and a disponible that is a
\* boolean (not null): an update stores no value that create validation
\* would reject.
C19_StoredRowsValid ==
    \A j \in DOMAIN productos :
        /\ Len(productos[j].nombre) >= 1
        /\ Len(productos[j].nombre) <= 150
        /\ productos[j].categoria \in CategoriaProducto
        /\ productos[j].precio_unitario.coef > 0
        /\ productos[j].precio_unitario.exp >= -2
        /\ productos[j].stock \in Nat
        /\ productos[j].disponible \in BOOLEAN
        /\ ProductoCreate([f \in FieldNames |-> Some(productos[j][f])]).ok

\* what create validation decides for the value o of field f
CreateAccepts(f, o) ==
    CASE f = "nombre" -> ProductoBase_nombre(o).ok
      [] f = "sku" -> ProductoBase_sku(o).ok
      [] f = "categoria" -> ProductoBase_categoria(o).ok
      [] f = "precio_unitario" -> ProductoBase_precio_unitario(o).ok
      [] f = "stock" -> ProductoBase_stock(o).ok
      [] f = "disponible" -> ProductoBase_disponible(o).ok

\* C21: update validation applies to each supplied field the rule create
\* validation applies to it: an update payload is accepted (not answered
\* 422) exactly when every field it supplies carries a value create
\* validation accepts for that field; fields the payload leaves out are
\* neither checked nor applied; a field supplied as null counts as
\* supplied and is not accepted where create requires a value.
C21_UpdateValidationAsCreate ==
    [][\A producto_id \in RequestIds : \A body \in ValidationUpdateBodies :
        (/\ request'.op = "update"
         /\ actualizar_producto(producto_id, body))
        => /\ status' # 422
                <=> \A f \in DOMAIN body : CreateAccepts(f, body[f])
           /\ status' = 200
                => \A f \in FieldNames \ DOMAIN body :
                      productos'[producto_id][f] = productos[producto_id][f]]_vars

\* C22: every update request ends in exactly one of four outcomes: 200
\* with the full updated record, 404, 400 (duplicate SKU) or 422
\* (validation failure); no payload that passes update validation, a
\* field supplied as null included, ends in an untyped store error.
C22_UpdateOutcomeTyped ==
    request.op = "update"
    => /\ status \in {200, 404, 400, 422}
       /\ status = 200
            => /\ ~IsNone(response)
               /\ get_by_id(productos, Val(response).id) = response

\* the payloads that fail validation
InvalidCreateBodies == {body \in ValidationCreateBodies : ~ProductoCreate(body).ok}
InvalidUpdateBodies == {body \in ValidationUpdateBodies : ~ProductoUpdate(body).ok}

\* C23: validation runs before any repository step: a create or update
\* request whose payload fails validation is answered 422, writes nothing
\* and leaves the table (and the id sequence) unchanged; a payload that is
\* invalid and carries a stored SKU is answered 422, not 400.  (Stated
\* contrapositively: a step that is not such a refusal is not the step of
\* a request with an invalid payload.)
C23_ValidationFirst ==
    [][/\ (/\ request'.op = "create"
            /\ ~(/\ status' = 422
                  /\ response' = None
                  /\ productos' = productos
                  /\ seq' = seq))
            => \A body \in InvalidCreateBodies : ~crear_producto(body)
       /\ (/\ request'.op = "update"
            /\ ~(/\ status' = 422
                  /\ response' = None
                  /\ productos' = productos
                  /\ seq' = seq))
            => \A producto_id \in RequestIds :
                  \A body \in InvalidUpdateBodies :
                     ~actualizar_producto(producto_id, body)]_vars

\* a create was answered 422 while the table holds the SKU that the
\* invalid payloads submit
C23_Witness ==
    /\ request.op = "create"
    /\ status = 422
    /\ \E j \in DOMAIN productos : productos[j].sku = upper(Sku_pan_0001)

====
